---- MODULE Spec2Model ----
(***************************************************************************)
(* ExternalServicesController of kube-parrot                               *)
(* (pkg/controller/externalservices.go): three observed-state caches fed   *)
(* by informer callbacks, a dirty reconciler, and the reconcile function   *)
(* that converges the external-IP route store to the cached state.         *)
(***************************************************************************)
EXTENDS Integers, Sequences, FiniteSets, TLC

VARIABLES
    proxies,     \* c.proxies: cache.Store of kube-proxy pods, a set of objects
    services,    \* c.services: cache.Store of services
    endpoints,   \* c.endpoints: cache.Store of endpoints
    routes,      \* c.routes: the ExternalIPRoutesStore's route set
    dirty,       \* the reconciler's pending flag
    rec,         \* the reconciler loop: "Idle" or "Running"
    inFlight,    \* number of executions of c.reconcile in flight
    run,         \* the locals of the reconcile() call in flight
    hpc,         \* per informer: its handler has mutated the cache and is about to call Dirty()
    stopped,     \* stopCh is closed
    runPc,       \* position of Run(): "init", "wait" or "returned"
    wg,          \* the WaitGroup counter
    launcher,    \* the goroutine that launched Run: "waiting" in wg.Wait(), "released"
    runClean,    \* history: no cache changed membership since the run in flight started
    sync,        \* history: "init", no cache has changed and no run has succeeded;
                 \* "stale", a cache changed since the start of the last run that
                 \* returned nil; "done", a run returned nil and no cache changed
                 \* since it started
    scen         \* history: position in the end-to-end scenario P1, S1, E1, E1 empty

vars == <<proxies, services, endpoints, routes, dirty, rec, inFlight, run, hpc,
          stopped, runPc, wg, launcher, runClean, sync, scen>>

---------------------------------------------------------------------------
(* The objects the informers deliver *)

KubeProxyPrefix == <<"kube", "-", "proxy">>
KubeProxyNamespace == "kube-system"

\* the hostIP the controller is constructed with, in net.IP's 16-byte form of 10.0.0.1
hostIP == <<0, 0, 0, 0, 0, 0, 0, 0, 0, 0, 255, 255, 10, 0, 0, 1>>

ProxyA == <<"kube", "-", "proxy", "-", "a">>
ProxyB == <<"kube", "-", "proxy", "-", "b">>
Pod(name, namespace, host, ready) ==
    [name |-> name, namespace |-> namespace, hostIP |-> host, ready |-> ready]
Pods ==
    { Pod(ProxyA, "kube-system", "10.0.0.1", TRUE),
      Pod(ProxyA, "kube-system", "10.0.0.1", FALSE),
      Pod(ProxyA, "kube-system", "10.0.0.2", TRUE),
      Pod(ProxyB, "kube-system", "10.0.0.1", TRUE),
      Pod(ProxyB, "kube-system", "10.0.0.1", FALSE),
      Pod(ProxyB, "kube-system", "10.0.0.2", FALSE),
      Pod(<<"kube", "-", "dns">>, "kube-system", "10.0.0.1", TRUE),
      Pod(ProxyA, "default", "10.0.0.1", TRUE) }

Service(name, ips) == [name |-> name, namespace |-> "default", externalIPs |-> ips]
Services ==
    { Service("s1", <<"1.2.3.4">>), Service("s1", <<>>), Service("s2", <<>>) }

\* Subsets: a list of subsets, each the list of its addresses
SubsetLists == { <<>>, << <<>> >>, << <<>>, <<"10.1.0.1">> >> }
EndpointsObjs == [name : {"s1", "s2"}, namespace : {"default"}, subsets : SubsetLists]

\* the old object of an update notification: the handlers ignore it, and a resync
\* delivers the object itself as the old one
Versions(objs, cur) == {o \in objs : o = cur}

None == [none |-> TRUE]

---------------------------------------------------------------------------
(* Helpers the handlers call *)

\* strings.HasPrefix
HasPrefix(s, prefix) ==
    /\ Len(prefix) <= Len(s)
    /\ SubSeq(s, 1, Len(prefix)) = prefix

\* net.IP.To4: the 4-byte form of an IPv4 address, nil otherwise
To4(ip) ==
    IF Len(ip) = 4 THEN ip
    ELSE IF /\ Len(ip) = 16
            /\ \A i \in 1..10 : ip[i] = 0
            /\ ip[11] = 255 /\ ip[12] = 255
         THEN SubSeq(ip, 13, 16)
         ELSE <<>>

\* net.IP.String for nil and for IPv4 addresses (the only ones hostIP takes here)
IPString(ip) ==
    IF Len(ip) = 0 THEN "<nil>"
    ELSE LET p4 == To4(ip)
         IN  IF Len(p4) = 4
             THEN ToString(p4[1]) \o "." \o ToString(p4[2]) \o "." \o
                  ToString(p4[3]) \o "." \o ToString(p4[4])
             ELSE "?"

\* util.IsPodReady: the pod's Ready condition
IsPodReady(pod) == pod.ready

\* cache.DeletionHandlingMetaNamespaceKeyFunc: namespace/name
Key(obj) == <<obj.namespace, obj.name>>

\* cache.Store
CacheGet(c, obj) == \E o \in c : Key(o) = Key(obj)
CacheAdd(c, obj) == {o \in c : Key(o) # Key(obj)} \cup {obj}
CacheDelete(c, obj) == {o \in c : Key(o) # Key(obj)}
CacheList(c) == c

\* what a handler does: the cache it leaves, and whether it goes on to call Dirty()
Keep(c) == [cache |-> c, dirty |-> FALSE]
\* variant: the cache is mutated and the handler returns without the Dirty() call
ChangedSilently(c) == [cache |-> c, dirty |-> FALSE]

Changed(c) == [cache |-> c, dirty |-> TRUE]

---------------------------------------------------------------------------
(* The handlers, as functions of the cache and the object delivered *)

podDelete(c, pod) ==
    IF CacheGet(c, pod) THEN Changed(CacheDelete(c, pod)) ELSE Keep(c)

\* variant: the host address is not compared
PodHostUnchecked(pod) == TRUE

PodHostMatches(pod) == pod.hostIP = IPString(To4(hostIP))

podAdd(c, pod) ==
    IF \/ ~HasPrefix(pod.name, KubeProxyPrefix)
       \/ pod.namespace # KubeProxyNamespace
    THEN Keep(c)
    ELSE IF ~PodHostMatches(pod)
    THEN Keep(c)
    ELSE IF IsPodReady(pod)
    THEN (IF ~CacheGet(c, pod) THEN Changed(CacheAdd(c, pod)) ELSE Keep(c))
    ELSE (IF CacheGet(c, pod) THEN Changed(CacheDelete(c, pod)) ELSE Keep(c))

podUpdate(c, old, cur) == podAdd(c, cur)

serviceDelete(c, service) == Changed(CacheDelete(c, service))

\* variant: the service is added without looking it up first
serviceAddAlways(c, service) ==
    IF Len(service.externalIPs) = 0
    THEN Keep(c)
    ELSE Changed(CacheAdd(c, service))

\* variant: the external-IP list is not looked at
serviceAddUngated(c, service) ==
    IF ~CacheGet(c, service) THEN Changed(CacheAdd(c, service)) ELSE Keep(c)

serviceAdd(c, service) ==
    IF Len(service.externalIPs) = 0
    THEN Keep(c)
    ELSE IF ~CacheGet(c, service) THEN Changed(CacheAdd(c, service)) ELSE Keep(c)

serviceUpdate(c, old, cur) == serviceAdd(c, cur)

endpointsDelete(c, ep) ==
    IF CacheGet(c, ep) THEN Changed(CacheDelete(c, ep)) ELSE Keep(c)

\* the loop over endpoints.Subsets that sets ready
EndpointsReady(ep) == \E i \in 1..Len(ep.subsets) : Len(ep.subsets[i]) > 0

endpointsAdd(c, ep) ==
    IF EndpointsReady(ep)
    THEN (IF ~CacheGet(c, ep) THEN Changed(CacheAdd(c, ep)) ELSE Keep(c))
    ELSE (IF CacheGet(c, ep) THEN Changed(CacheDelete(c, ep)) ELSE Keep(c))

endpointsUpdate(c, old, cur) == endpointsAdd(c, cur)

---------------------------------------------------------------------------
(* The route store: bgp.ExternalIPRoutesStore, routes keyed by (Service, Proxy) *)

RouteKey(r) == <<Key(r.Service), Key(r.Proxy)>>
RoutesList(rs) == rs
RoutesAdd(rs, service, proxy) ==
    IF \E r \in rs : RouteKey(r) = <<Key(service), Key(proxy)>>
    THEN rs
    ELSE rs \cup {[Service |-> service, Proxy |-> proxy]}
RoutesDelete(rs, route) == {r \in rs : RouteKey(r) # RouteKey(route)}

---------------------------------------------------------------------------
(* reconcile(): one step per cache read, with the route store call it leads to *)

IdleRun ==
    [pc |-> "none", snapshot |-> {}, todo |-> {}, cur |-> None,
     ptodo |-> {}, curP |-> None, stodo |-> {}, curS |-> None, err |-> FALSE,
     dels |-> 0]

\* return err / return nil
Returned(rn, err) ==
    [IdleRun EXCEPT !.pc = "ret", !.snapshot = rn.snapshot, !.err = err]

\* the next iteration of `for _, route := range c.routes.List()`, in any order
NextRoute(rn) ==
    IF rn.todo = {}
    THEN {[rn EXCEPT !.pc = "proxies", !.cur = None]}
    ELSE {[rn EXCEPT !.pc = "proxy", !.cur = x, !.todo = rn.todo \ {x}] : x \in rn.todo}

\* the next iteration of `for _, proxy := range c.proxies.List()`
NextProxy(rn) ==
    IF rn.ptodo = {}
    THEN {Returned(rn, FALSE)}
    ELSE {[rn EXCEPT !.pc = "services", !.curP = p, !.ptodo = rn.ptodo \ {p},
                     !.curS = None, !.stodo = {}] : p \in rn.ptodo}

\* the next iteration of `for _, service := range c.services.List()`
NextService(rn) ==
    IF rn.stodo = {}
    THEN NextProxy(rn)
    ELSE {[rn EXCEPT !.pc = "add", !.curS = s, !.stodo = rn.stodo \ {s}] : s \in rn.stodo}

\* variants: the proxy test inverted; the endpoints test left out; any cached
\* endpoints taken for the service's
ProxyCachedInverted(route) == ~CacheGet(proxies, route.Proxy)
EndpointsNotChecked(route) == TRUE
ServiceCachedInverted(route) == ~CacheGet(services, route.Service)
AnyEndpoints(service) == endpoints # {}

\* the three conditions of the prune pass
ProxyCached(route) == CacheGet(proxies, route.Proxy)
ServiceCached(route) == CacheGet(services, route.Service)
EndpointsCached(route) == CacheGet(endpoints, route.Service)

\* the condition of the converge pass
ServiceHasEndpoints(service) == CacheGet(endpoints, service)

\* rn.dels: the calls of c.routes.Delete made so far for the route of the iteration
WithDels(rns, n) == {[rn EXCEPT !.dels = n] : rn \in rns}

\* variant: a failed Delete is noted and the loop goes on to the next test
PruneIfMissingContinuing(present, n, afters) ==
    IF present
    THEN /\ routes' = routes
         /\ run' \in WithDels(afters, n)
    ELSE \E ok \in BOOLEAN :
            /\ routes' = IF ok THEN RoutesDelete(routes, run.cur) ELSE routes
            /\ run' \in {[rn EXCEPT !.err = rn.err \/ ~ok] : rn \in WithDels(afters, n + 1)}

\* if _, ok, _ := cache.Get(..); !ok { if err := c.routes.Delete(route); err != nil { return err } }
\* n: the Delete calls the earlier tests of this iteration made
PruneIfMissing(present, n, afters) ==
    IF present
    THEN /\ routes' = routes
         /\ run' \in WithDels(afters, n)
    ELSE \E ok \in BOOLEAN :
            IF ok
            THEN /\ routes' = RoutesDelete(routes, run.cur)
                 /\ run' \in WithDels(afters, n + 1)
            ELSE /\ routes' = routes
                 /\ run' = Returned(run, TRUE)

---------------------------------------------------------------------------
(* The dirty reconciler: reconciler.NewNamedDirtyReconciler("externalips", c.reconcile) *)

\* variants: a run is started while one is in flight; the flag is cleared when a
\* run ends; an error does not set the flag
CanStartRunOverlapping(state, pending, stop) == pending /\ ~stop
CanStartRunUnsignalled(state, pending, stop) == state = "Idle" /\ ~stop

\* variant: Dirty() hands the signal to the loop and waits while a run is in flight
DirtyWaitsForIdle(state) == state = "Idle"
DirtyClearedAfterRun(pending, err) == err
DirtyIgnoringError(pending, err) == pending

\* the loop starts a run when a dirty signal is pending, no run is in flight and
\* the stop signal is not raised
CanStartRun(state, pending, stop) == state = "Idle" /\ pending /\ ~stop

\* Dirty() is non-blocking: it returns in every state of the loop
DirtyReturns(state) == TRUE

\* a run that returned an error leaves the flag pending
DirtyAfterRun(pending, err) == pending \/ err

\* Dirty(): sets the pending flag
MarkDirty(pending) == TRUE

---------------------------------------------------------------------------
(* History of the end-to-end scenario: Proxy P1, Service S1, Endpoints of S1 with
   one address, Endpoints of S1 without addresses, each followed by a reconcile
   run that starts after the event and returns nil with no cache changed meanwhile.
   ph is "e" after event n, "s" once a run has started after it, "r" once that
   run has returned nil. *)

P1 == Pod(ProxyA, "kube-system", "10.0.0.1", TRUE)
S1 == Service("s1", <<"1.2.3.4">>)
E1 == [name |-> "s1", namespace |-> "default", subsets |-> << <<>>, <<"10.1.0.1">> >>]

Off == [n |-> 0, ph |-> "off"]
ScenStart == [n |-> 0, ph |-> "r"]

ScenEvent(n) ==
    CASE n = 1 -> proxies = {} /\ proxies' = {P1}
      [] n = 2 -> services = {} /\ services' = {S1}
      [] n = 3 -> endpoints = {} /\ endpoints' = {E1}
      [] n = 4 -> endpoints = {E1} /\ endpoints' = {}
      [] OTHER -> FALSE

ScenNext ==
    IF scen = Off THEN Off
    ELSE IF <<proxies, services, endpoints>>' # <<proxies, services, endpoints>>
    THEN (IF scen.ph = "r" /\ ScenEvent(scen.n + 1)
          THEN [n |-> scen.n + 1, ph |-> "e"]
          ELSE Off)
    ELSE IF scen.ph = "e" /\ rec = "Idle" /\ rec' = "Running"
    THEN [scen EXCEPT !.ph = "s"]
    ELSE IF scen.ph = "s" /\ run.pc # "ret" /\ run'.pc = "ret"
    THEN [scen EXCEPT !.ph = IF run'.err THEN "e" ELSE "r"]
    ELSE scen

---------------------------------------------------------------------------
(* The informer callbacks. A handler that changes its cache goes on to call
   Dirty(); the three informers deliver concurrently, each one handler at a time. *)

HandlerFrame(changed) ==
    /\ runClean' = (runClean /\ ~(changed /\ rec = "Running"))
    /\ sync' = IF changed THEN "stale" ELSE sync
    /\ UNCHANGED <<routes, dirty, rec, inFlight, run, stopped, runPc, wg, launcher>>
    /\ scen' = ScenNext

PodHandler(res) ==
    /\ ~hpc.pod
    /\ proxies' = res.cache
    /\ hpc' = [hpc EXCEPT !.pod = res.dirty]
    /\ UNCHANGED <<services, endpoints>>
    /\ HandlerFrame(res.cache # proxies)

ServiceHandler(res) ==
    /\ ~hpc.service
    /\ services' = res.cache
    /\ hpc' = [hpc EXCEPT !.service = res.dirty]
    /\ UNCHANGED <<proxies, endpoints>>
    /\ HandlerFrame(res.cache # services)

\* variant: a handler that drops an endpoints entry drops the cached services too
EndpointsHandlerEvicting(res) ==
    /\ ~hpc.endpoints
    /\ endpoints' = res.cache
    /\ hpc' = [hpc EXCEPT !.endpoints = res.dirty]
    /\ services' = IF res.cache \subseteq endpoints /\ res.cache # endpoints THEN {} ELSE services
    /\ UNCHANGED proxies
    /\ HandlerFrame(res.cache # endpoints)

EndpointsHandler(res) ==
    /\ ~hpc.endpoints
    /\ endpoints' = res.cache
    /\ hpc' = [hpc EXCEPT !.endpoints = res.dirty]
    /\ UNCHANGED <<proxies, services>>
    /\ HandlerFrame(res.cache # endpoints)

OnPodAdd(pod) == PodHandler(podAdd(proxies, pod))
OnPodUpdate(old, cur) == PodHandler(podUpdate(proxies, old, cur))
OnPodDelete(pod) == PodHandler(podDelete(proxies, pod))
OnServiceAdd(service) == ServiceHandler(serviceAdd(services, service))
OnServiceUpdate(old, cur) == ServiceHandler(serviceUpdate(services, old, cur))
OnServiceDelete(service) == ServiceHandler(serviceDelete(services, service))
OnEndpointsAdd(ep) == EndpointsHandler(endpointsAdd(endpoints, ep))
OnEndpointsUpdate(old, cur) == EndpointsHandler(endpointsUpdate(endpoints, old, cur))
OnEndpointsDelete(ep) == EndpointsHandler(endpointsDelete(endpoints, ep))

PodAddEvent == \E pod \in Pods : OnPodAdd(pod)
PodUpdateEvent == \E cur \in Pods : \E old \in Versions(Pods, cur) : OnPodUpdate(old, cur)
PodDeleteEvent == \E pod \in Pods : OnPodDelete(pod)
ServiceAddEvent == \E service \in Services : OnServiceAdd(service)
ServiceUpdateEvent ==
    \E cur \in Services : \E old \in Versions(Services, cur) : OnServiceUpdate(old, cur)
ServiceDeleteEvent == \E service \in Services : OnServiceDelete(service)
EndpointsAddEvent == \E ep \in EndpointsObjs : OnEndpointsAdd(ep)
EndpointsUpdateEvent ==
    \E cur \in EndpointsObjs : \E old \in Versions(EndpointsObjs, cur) : OnEndpointsUpdate(old, cur)
EndpointsDeleteEvent == \E ep \in EndpointsObjs : OnEndpointsDelete(ep)

\* c.reconciler.Dirty(), the last statement of a handler that changed its cache
HandlerDirty(kind) ==
    /\ hpc[kind]
    /\ DirtyReturns(rec)
    /\ hpc' = [hpc EXCEPT ![kind] = FALSE]
    /\ dirty' = MarkDirty(dirty)
    /\ UNCHANGED <<proxies, services, endpoints, routes, rec, inFlight, run,
                   stopped, runPc, wg, launcher, runClean, sync>>
    /\ scen' = ScenNext

CallDirty == \E kind \in {"pod", "service", "endpoints"} : HandlerDirty(kind)

---------------------------------------------------------------------------
(* The reconciler loop and the steps of reconcile() *)

MaxInFlight == 2

StartRun ==
    /\ runPc # "init"
    /\ CanStartRun(rec, dirty, stopped)
    /\ inFlight < MaxInFlight
    /\ dirty' = FALSE
    /\ rec' = "Running"
    /\ inFlight' = inFlight + 1
    /\ run' = [IdleRun EXCEPT !.pc = "list"]
    /\ runClean' = TRUE
    /\ UNCHANGED <<proxies, services, endpoints, routes, hpc, stopped, runPc, wg, launcher, sync>>
    /\ scen' = ScenNext

ReconcileFrame ==
    /\ UNCHANGED <<proxies, services, endpoints, dirty, rec, inFlight, hpc,
                   stopped, runPc, wg, launcher, runClean>>
    /\ sync' = IF run'.pc = "ret" /\ ~run'.err /\ runClean THEN "done" ELSE sync
    /\ scen' = ScenNext

\* for _, route := range c.routes.List()
RList ==
    /\ run.pc = "list"
    /\ run' \in NextRoute([run EXCEPT !.snapshot = RoutesList(routes),
                                      !.todo = RoutesList(routes)])
    /\ routes' = routes
    /\ ReconcileFrame

RPruneProxy ==
    /\ run.pc = "proxy"
    /\ PruneIfMissing(ProxyCached(run.cur), 0, {[run EXCEPT !.pc = "service"]})
    /\ ReconcileFrame

RPruneService ==
    /\ run.pc = "service"
    /\ PruneIfMissing(ServiceCached(run.cur), run.dels, {[run EXCEPT !.pc = "endpoints"]})
    /\ ReconcileFrame

RPruneEndpoints ==
    /\ run.pc = "endpoints"
    /\ PruneIfMissing(EndpointsCached(run.cur), run.dels, NextRoute(run))
    /\ ReconcileFrame

\* for _, proxy := range c.proxies.List()
RListProxies ==
    /\ run.pc = "proxies"
    /\ run' \in NextProxy([run EXCEPT !.ptodo = CacheList(proxies), !.dels = 0])
    /\ routes' = routes
    /\ ReconcileFrame

\* for _, service := range c.services.List()
RListServices ==
    /\ run.pc = "services"
    /\ run' \in NextService([run EXCEPT !.stodo = CacheList(services)])
    /\ routes' = routes
    /\ ReconcileFrame

\* if _, ok, _ := c.endpoints.Get(service); ok { c.routes.Add(service, proxy) }
RAdd ==
    /\ run.pc = "add"
    /\ IF ServiceHasEndpoints(run.curS)
       THEN \E ok \in BOOLEAN :
               IF ok
               THEN /\ routes' = RoutesAdd(routes, run.curS, run.curP)
                    /\ run' \in NextService(run)
               ELSE /\ routes' = routes
                    /\ run' = Returned(run, TRUE)
       ELSE /\ routes' = routes
            /\ run' \in NextService(run)
    /\ ReconcileFrame

\* reconcile has returned: the loop logs an error, keeps the flag pending, goes Idle
FinishRun ==
    /\ rec = "Running"
    /\ run.pc = "ret"
    /\ rec' = "Idle"
    /\ dirty' = DirtyAfterRun(dirty, run.err)
    /\ inFlight' = inFlight - 1
    /\ run' = IdleRun
    /\ runClean' = TRUE
    /\ UNCHANGED <<proxies, services, endpoints, routes, hpc, stopped, runPc, wg, launcher, sync>>
    /\ scen' = ScenNext

Reconciler ==
    \/ StartRun
    \/ RList
    \/ RPruneProxy
    \/ RPruneService
    \/ RPruneEndpoints
    \/ RListProxies
    \/ RListServices
    \/ RAdd
    \/ FinishRun

---------------------------------------------------------------------------
(* Run(stopCh, wg) and the stop signal *)

\* wg.Add(1); c.reconciler.Run(stopCh)
RunStart ==
    /\ runPc = "init"
    /\ wg' = wg + 1
    /\ runPc' = "wait"
    /\ UNCHANGED <<proxies, services, endpoints, routes, dirty, rec, inFlight, run,
                   hpc, stopped, runClean, sync, launcher>>
    /\ scen' = ScenNext

\* variant: Run does not wait for the stop signal
StopNotAwaited(stop) == TRUE

\* the guard of <-stopCh
StopReceived(stop) == stop

\* <-stopCh; the deferred wg.Done()
RunReturn ==
    /\ runPc = "wait"
    /\ StopReceived(stopped)
    /\ runPc' = "returned"
    /\ wg' = wg - 1
    /\ UNCHANGED <<proxies, services, endpoints, routes, dirty, rec, inFlight, run,
                   hpc, stopped, runClean, sync, launcher>>
    /\ scen' = ScenNext

\* wg.Wait(), by the goroutine that ran `go c.Run(stopCh, wg)`: it returns when
\* the counter is zero
LauncherWait ==
    /\ launcher = "waiting"
    /\ wg = 0
    /\ launcher' = "released"
    /\ UNCHANGED <<proxies, services, endpoints, routes, dirty, rec, inFlight, run,
                   hpc, stopped, runPc, wg, runClean, sync>>
    /\ scen' = ScenNext

\* close(stopCh), by the caller of Run
Stop ==
    /\ ~stopped
    /\ stopped' = TRUE
    /\ UNCHANGED <<proxies, services, endpoints, routes, dirty, rec, inFlight, run,
                   hpc, runPc, wg, launcher, runClean, sync>>
    /\ scen' = ScenNext

---------------------------------------------------------------------------
(* The specification *)

\* the routes a route store can hold when the controller is constructed
ReadyPods == {pod \in Pods : podAdd({}, pod).dirty}
ReadyServices == {service \in Services : serviceAdd({}, service).dirty}
InitialRoutes == [Service : ReadyServices, Proxy : ReadyPods]

Init ==
    /\ proxies = {}
    /\ services = {}
    /\ endpoints = {}
    /\ routes \in SUBSET InitialRoutes
    /\ dirty = FALSE
    /\ rec = "Idle"
    /\ inFlight = 0
    /\ run = IdleRun
    /\ hpc = [pod |-> FALSE, service |-> FALSE, endpoints |-> FALSE]
    /\ stopped = FALSE
    /\ runPc = "init"
    /\ wg = 0
    /\ launcher = "waiting"
    /\ runClean = TRUE
    /\ sync = "init"
    /\ scen = IF routes = {} THEN ScenStart ELSE Off

Next ==
    \/ PodAddEvent
    \/ PodUpdateEvent
    \/ PodDeleteEvent
    \/ ServiceAddEvent
    \/ ServiceUpdateEvent
    \/ ServiceDeleteEvent
    \/ EndpointsAddEvent
    \/ EndpointsUpdateEvent
    \/ EndpointsDeleteEvent
    \/ CallDirty
    \/ Reconciler
    \/ RunStart
    \/ RunReturn
    \/ Stop

Spec == Init /\ [][Next]_vars

\* the Event Adapter alone: the informer callbacks and their Dirty() calls
AdapterNext ==
    \/ PodAddEvent
    \/ PodUpdateEvent
    \/ PodDeleteEvent
    \/ ServiceAddEvent
    \/ ServiceUpdateEvent
    \/ ServiceDeleteEvent
    \/ EndpointsAddEvent
    \/ EndpointsUpdateEvent
    \/ EndpointsDeleteEvent
    \/ CallDirty

AdapterSpec == Init /\ [][AdapterNext]_vars

\* Run as a goroutine of its own beside the goroutine that launched it and waits
\* on the WaitGroup, with the informer callbacks going on
ShutdownNext ==
    \/ PodAddEvent
    \/ PodUpdateEvent
    \/ PodDeleteEvent
    \/ ServiceAddEvent
    \/ ServiceUpdateEvent
    \/ ServiceDeleteEvent
    \/ EndpointsAddEvent
    \/ EndpointsUpdateEvent
    \/ EndpointsDeleteEvent
    \/ CallDirty
    \/ RunStart
    \/ RunReturn
    \/ Stop
    \/ LauncherWait

ShutdownSpec == Init /\ [][ShutdownNext]_vars

\* the reconciler's goroutine, Run's goroutine and the informers' goroutines are
\* scheduled; events and the stop signal need not arrive
LiveSpec ==
    /\ Spec
    /\ WF_vars(Reconciler)
    /\ WF_vars(RunStart)
    /\ WF_vars(CallDirty)

---------------------------------------------------------------------------
(* Properties *)

RouteSet(rs) == {RouteKey(r) : r \in rs}

\* {(s,p) : p in the Proxy cache, s in the Service cache, Endpoints cached under s's key}
DesiredOf(ps, ss, es) ==
    {<<Key(s), Key(p)>> : s \in {x \in ss : \E e \in es : Key(e) = Key(x)}, p \in ps}
Desired == DesiredOf(proxies, services, endpoints)

\* reconcile has returned nil and no cache changed membership since the run started
CleanSuccess == run.pc = "ret" /\ ~run.err /\ runClean

\* C1: Convergence. From empty caches and any initial route set, after any
\* notifications, a reconcile run that returns nil with no cache mutation since it
\* started leaves the route set equal to exactly the desired set of (Service, Proxy).
C1_Convergence ==
    CleanSuccess =>
        /\ RouteSet(routes) = Desired
        /\ Cardinality(routes) = Cardinality(Desired)

\* the run pruned a stale route and added a missing one
C1_Witness ==
    /\ CleanSuccess
    /\ RouteSet(routes) = Desired
    /\ RouteSet(run.snapshot) \ Desired # {}
    /\ Desired \ RouteSet(run.snapshot) # {}

\* C2: Prune correctness. When the routes a run lists are the desired set of the
\* caches with one more proxy p in the Proxy cache (a converged state from which p
\* was removed), the run removes exactly the routes of p: every other listed route
\* is still there and nothing else is.
C2_PruneCorrectness ==
    CleanSuccess =>
        \A p \in ReadyPods :
            ( /\ ~CacheGet(proxies, p)
              /\ RouteSet(run.snapshot) = DesiredOf(proxies \cup {p}, services, endpoints) )
            => RouteSet(routes) = {k \in RouteSet(run.snapshot) : k[2] # Key(p)}

\* proxy A was removed: its route is gone, proxy B's route is kept
C2_Witness ==
    /\ CleanSuccess
    /\ ~CacheGet(proxies, P1)
    /\ RouteSet(run.snapshot) = DesiredOf(proxies \cup {P1}, services, endpoints)
    /\ \E r \in run.snapshot : Key(r.Proxy) = Key(P1)
    /\ RouteSet(routes) # {}
    /\ \A r \in routes : Key(r.Proxy) # Key(P1)

\* the Endpoints of S1 without addresses
E1Empty == [name |-> "s1", namespace |-> "default", subsets |-> << <<>> >>]

\* C8: End-to-end scenario from empty caches and an empty route set, a reconcile
\* run completing after each event: no route after Proxy P1, none after Service S1,
\* exactly (S1,P1) after Endpoints of S1 with an address, none after the Endpoints
\* update without addresses. Each event is what its notification does to the
\* caches the event before it left.
C8_Scenario ==
    scen.ph = "r" =>
        /\ RouteSet(routes) = IF scen.n = 3 THEN {<<Key(S1), Key(P1)>>} ELSE {}
        /\ scen.n = 0 => podAdd(proxies, P1) = Changed({P1})
        /\ scen.n = 1 => serviceAdd(services, S1) = Changed({S1})
        /\ scen.n = 2 => endpointsAdd(endpoints, E1) = Changed({E1})
        /\ scen.n = 3 => endpointsUpdate(endpoints, E1, E1Empty) = Changed({})

C8_Witness == scen = [n |-> 4, ph |-> "r"] /\ routes = {}

---------------------------------------------------------------------------
(* The readiness filters, as the data model states them *)

NodeAddress == IPString(hostIP)

ProxyReadiness(pod) ==
    /\ HasPrefix(pod.name, KubeProxyPrefix)
    /\ pod.namespace = KubeProxyNamespace
    /\ pod.hostIP = NodeAddress
    /\ pod.ready
ServiceEligible(service) == service.externalIPs # <<>>
HasReadyAddress(ep) == \E i \in DOMAIN ep.subsets : ep.subsets[i] # <<>>

Cached(c, obj) == \E o \in c : <<o.namespace, o.name>> = <<obj.namespace, obj.name>>

\* an add or update notification carrying the object
PodAddOrUpdate(pod) ==
    OnPodAdd(pod) \/ \E old \in Versions(Pods, pod) : OnPodUpdate(old, pod)
ServiceAddOrUpdate(service) ==
    OnServiceAdd(service) \/ \E old \in Versions(Services, service) : OnServiceUpdate(old, service)
EndpointsAddOrUpdate(ep) ==
    OnEndpointsAdd(ep) \/ \E old \in Versions(EndpointsObjs, ep) : OnEndpointsUpdate(old, ep)

\* the notification of a ready object: a no-op when its key is cached, and else an
\* insert of that one entry followed by one Dirty() call
ReadyDelivery(c, obj, cNew, dirtyCall) ==
    IF Cached(c, obj)
    THEN cNew = c /\ ~dirtyCall
    ELSE cNew = c \cup {obj} /\ dirtyCall

\* C5: Event Adapter idempotence. For each kind, an add-or-update notification of a
\* ready object whose key is cached leaves the cache unchanged and raises no dirty
\* signal; delivered to a cache without the key it inserts one entry and raises one.
C5_Idempotence ==
    [][ /\ \A pod \in Pods :
             PodAddOrUpdate(pod) /\ ProxyReadiness(pod)
             => ReadyDelivery(proxies, pod, proxies', hpc'.pod)
        /\ \A service \in Services :
             ServiceAddOrUpdate(service) /\ ServiceEligible(service)
             => ReadyDelivery(services, service, services', hpc'.service)
        /\ \A ep \in EndpointsObjs :
             EndpointsAddOrUpdate(ep) /\ HasReadyAddress(ep)
             => ReadyDelivery(endpoints, ep, endpoints', hpc'.endpoints) ]_vars

\* every kind holds its ready object, the Dirty() calls of the first deliveries are
\* made, and the handlers take the same objects again without effect
C5_Witness ==
    /\ proxies = {P1} /\ services = {S1} /\ endpoints = {E1}
    /\ hpc = [pod |-> FALSE, service |-> FALSE, endpoints |-> FALSE]
    /\ dirty
    /\ podAdd(proxies, P1) = Keep(proxies)
    /\ serviceAdd(services, S1) = Keep(services)
    /\ endpointsAdd(endpoints, E1) = Keep(endpoints)

\* C6: Readiness gating, proxy. A pod notification with the prefix and the namespace
\* but another host address never inserts into the Proxy cache, ready or not; every
\* object in the Proxy cache has the node's host address.
C6_ProxyGating ==
    /\ [](\A pod \in proxies : pod.hostIP = NodeAddress)
    /\ [][ \A pod \in Pods :
             ( /\ PodAddOrUpdate(pod)
               /\ HasPrefix(pod.name, KubeProxyPrefix)
               /\ pod.namespace = KubeProxyNamespace
               /\ pod.hostIP # NodeAddress )
             => proxies' \subseteq proxies ]_vars

\* proxy B of this node is cached; proxy A, ready on another node, is not and its
\* notification leaves the cache as it is
C6_Witness ==
    /\ proxies = {Pod(ProxyB, "kube-system", "10.0.0.1", TRUE)}
    /\ ~hpc.pod
    /\ podAdd(proxies, Pod(ProxyA, "kube-system", "10.0.0.2", TRUE)) = Keep(proxies)

\* C7: Readiness gating, service. A service notification with an empty external-IP
\* list never inserts into the Service cache; every cached service has external IPs;
\* a delete notification for a service that is not cached leaves the cache unchanged.
C7_ServiceGating ==
    /\ [](\A service \in services : service.externalIPs # <<>>)
    /\ [][ \A service \in Services :
             /\ (ServiceAddOrUpdate(service) /\ service.externalIPs = <<>>)
                => services' \subseteq services
             /\ (OnServiceDelete(service) /\ ~Cached(services, service))
                => services' = services ]_vars

\* S1 is cached; s2, without external IPs, is not: adding it and deleting it both
\* leave the cache as it is
C7_Witness ==
    /\ services = {S1}
    /\ ~hpc.service
    /\ serviceAdd(services, Service("s2", <<>>)).cache = services
    /\ serviceDelete(services, Service("s2", <<>>)).cache = services

---------------------------------------------------------------------------
(* The dirty reconciler and shutdown *)

\* C3: No missed dirty signal. When the dirty signal is raised while a reconcile
\* run is executing, then unless the stop signal is raised another run starts
\* after this one, with no further dirty signal needed.
C3_NoMissedDirty ==
    /\ [][rec = "Running" /\ rec' = "Idle" /\ dirty => dirty']_vars
    /\ [](rec = "Running" /\ dirty => <>(stopped \/ (rec = "Running" /\ ~dirty)))

\* a handler has raised the signal during the prune pass of a run
C3_Witness ==
    /\ rec = "Running" /\ run.pc = "service"
    /\ dirty /\ ~stopped
    /\ hpc = [pod |-> FALSE, service |-> FALSE, endpoints |-> FALSE]

\* C4: No overlapping runs. At most one execution of reconcile is in flight, and a
\* pending dirty signal is consumed by a run that starts after it was raised (as
\* long as the stop signal is not raised).
C4_NoOverlap ==
    /\ [](inFlight <= 1)
    /\ [](dirty => <>(~dirty \/ stopped))

\* two informers are about to signal while a run is in flight with the flag pending
C4_Witness ==
    /\ inFlight = 1 /\ dirty /\ ~stopped
    /\ hpc.pod /\ hpc.endpoints

\* C9: Shutdown. Run does not return before the stop signal; once the signal is
\* raised no reconcile run starts, whatever the dirty flag; a run in flight at that
\* moment runs on until it returns.
C9_Shutdown ==
    /\ [](runPc = "returned" => stopped)
    /\ [][stopped => inFlight' <= inFlight]_vars
    /\ [](stopped /\ rec = "Running" => <>(rec = "Idle"))

\* stopped with the flag pending and a handler still signalling: Run has returned
\* and the reconciler is idle
C9_Witness ==
    /\ stopped /\ runPc = "returned"
    /\ rec = "Idle" /\ dirty /\ hpc.service

\* C10: Retry on error. A run that returned an error leaves the dirty flag pending,
\* and unless the stop signal is raised another run starts, with no dirty signal
\* from a handler needed.
C10_RetryOnError ==
    /\ [][rec = "Running" /\ rec' = "Idle" /\ run.err => dirty']_vars
    /\ [](run.pc = "ret" /\ run.err => <>(stopped \/ run.pc = "list"))

\* reconcile has returned an error, no signal is pending or on its way
C10_Witness ==
    /\ run.pc = "ret" /\ run.err
    /\ ~dirty /\ ~stopped
    /\ hpc = [pod |-> FALSE, service |-> FALSE, endpoints |-> FALSE]

---------------------------------------------------------------------------
(* The Event Adapter: removal and delete paths *)

\* what a handler does with an object that fails its filter while its key is
\* cached: the entry leaves the cache and one Dirty() call follows
NotReadyDelivery(obj, res) == ~Cached(res.cache, obj) /\ res.dirty

\* C12: Removal on not-ready. For each kind, an add-or-update notification whose
\* object fails that kind's readiness filter while an entry with the same key is
\* cached removes that entry from the cache and raises the dirty signal.
C12_RemovalOnNotReady ==
    /\ \A pod \in Pods :
          ~ProxyReadiness(pod) /\ Cached(proxies, pod)
          => /\ NotReadyDelivery(pod, podAdd(proxies, pod))
             /\ \A old \in Versions(Pods, pod) :
                   NotReadyDelivery(pod, podUpdate(proxies, old, pod))
    /\ \A service \in Services :
          ~ServiceEligible(service) /\ Cached(services, service)
          => /\ NotReadyDelivery(service, serviceAdd(services, service))
             /\ \A old \in Versions(Services, service) :
                   NotReadyDelivery(service, serviceUpdate(services, old, service))
    /\ \A ep \in EndpointsObjs :
          ~HasReadyAddress(ep) /\ Cached(endpoints, ep)
          => /\ NotReadyDelivery(ep, endpointsAdd(endpoints, ep))
             /\ \A old \in Versions(EndpointsObjs, ep) :
                   NotReadyDelivery(ep, endpointsUpdate(endpoints, old, ep))

\* the delete notification of an object: with its key cached the entry leaves the
\* cache and one Dirty() call follows, and else nothing changes and none is made
DeleteDelivery(c, obj, cNew, dirtyCall) ==
    IF Cached(c, obj)
    THEN ~Cached(cNew, obj) /\ dirtyCall
    ELSE cNew = c /\ ~dirtyCall

\* C13: Delete path. For each kind, a delete notification for an object whose key
\* is cached removes the entry and raises the dirty signal, and a delete
\* notification for an object whose key is not cached is a no-op: the cache is
\* unchanged and no dirty signal is raised.
C13_DeletePath ==
    [][ /\ \A pod \in Pods :
             OnPodDelete(pod) => DeleteDelivery(proxies, pod, proxies', hpc'.pod)
        /\ \A service \in Services :
             OnServiceDelete(service)
             => DeleteDelivery(services, service, services', hpc'.service)
        /\ \A ep \in EndpointsObjs :
             OnEndpointsDelete(ep)
             => DeleteDelivery(endpoints, ep, endpoints', hpc'.endpoints) ]_vars

---------------------------------------------------------------------------
(* The Route Store calls of one reconcile run *)

\* C14: No redundant route mutations. Within a single reconcile run the Route Store
\* Delete operation is issued at most once for any given route, including a route
\* for which two or three of the prune conditions hold at once.
C14_NoRedundantDelete == run.dels <= 1

\* C15: Abort on failure. When a Route Store Delete fails during the prune pass or
\* an Add fails during the converge pass, reconcile returns the error in that step
\* and issues no further Delete or Add in that run; the failed call changes no
\* route and the mutations applied before it stay applied.
C15_AbortOnFailure ==
    [][ /\ run'.err => run'.pc = "ret" /\ routes' = routes
        /\ run.err => routes' = routes /\ run' \in {run, IdleRun} ]_vars

\* a run has returned an error after it had changed the route set, while no handler
\* changed a cache: the earlier mutation is still in the Route Store
C15_Witness ==
    /\ run.pc = "ret" /\ run.err
    /\ runClean
    /\ routes # run.snapshot

\* C16: Reconcile is idempotent. While no cache has changed since the start of a
\* run that returned nil, a further reconcile run issues no Delete and leaves the
\* Route Store's route set unchanged (every Add it issues is for a route that
\* exists).
C16_ReconcileIdempotent ==
    [][sync = "done" => routes' = routes /\ run'.dels = 0]_vars

\* the run after a successful one is in its converge pass, about to issue the Add
\* of a route that exists
C16_Witness ==
    /\ sync = "done"
    /\ run.pc = "add" /\ runClean
    /\ ServiceHasEndpoints(run.curS)
    /\ [Service |-> run.curS, Proxy |-> run.curP] \in routes

---------------------------------------------------------------------------
(* The dirty flag and the runs *)

\* C17: No spurious runs. A reconcile run starts only when the pending (dirty) flag
\* is set, and starting a run clears the flag; a run that succeeds leaves the flag
\* as the handlers set it, and while the reconciler is Idle no Route Store mutation
\* is issued: after a successful run with no dirty signal since its start the
\* reconciler stays Idle.
C17_NoSpuriousRuns ==
    /\ [][rec = "Idle" /\ rec' = "Running" => dirty /\ ~dirty']_vars
    /\ [][rec = "Running" /\ rec' = "Idle" /\ ~run.err => dirty' = dirty]_vars
    /\ [][rec = "Idle" => routes' = routes]_vars

\* the last run succeeded, no signal is pending or on its way, the reconciler is
\* Idle and the routes it converged on are in place
C17_Witness ==
    /\ sync = "done"
    /\ rec = "Idle" /\ ~dirty /\ ~stopped
    /\ hpc = [pod |-> FALSE, service |-> FALSE, endpoints |-> FALSE]
    /\ routes # {}

---------------------------------------------------------------------------
(* The callback paths and the reconcile run, side by side *)

Kinds == {"pod", "service", "endpoints"}

\* a step of a callback path: a cache mutation or a Dirty() call
CallbackStep == <<proxies, services, endpoints, hpc>>' # <<proxies, services, endpoints, hpc>>

\* C18: Raising the dirty signal never blocks and never runs reconcile inline. In
\* every reachable state, a run in flight or not, each of the three callback paths
\* can take its next step, the handler or the Dirty() call that ends it, and no
\* step of a callback path changes the Route Store or the reconcile run.
C18_DirtyNeverBlocks ==
    /\ [](\A kind \in Kinds : hpc[kind] => ENABLED HandlerDirty(kind))
    /\ [](/\ ~hpc.pod => ENABLED (PodAddEvent \/ PodUpdateEvent \/ PodDeleteEvent)
          /\ ~hpc.service
             => ENABLED (ServiceAddEvent \/ ServiceUpdateEvent \/ ServiceDeleteEvent)
          /\ ~hpc.endpoints
             => ENABLED (EndpointsAddEvent \/ EndpointsUpdateEvent \/ EndpointsDeleteEvent))
    /\ [][CallbackStep => UNCHANGED <<routes, run, rec, inFlight>>]_vars

\* a handler changed its cache and completed its Dirty() call while a reconcile run
\* was in its converge pass
C18_Witness ==
    /\ rec = "Running" /\ run.pc = "add"
    /\ ~runClean /\ dirty
    /\ hpc = [pod |-> FALSE, service |-> FALSE, endpoints |-> FALSE]

\* C19: Frame of reconcile and of the handlers. A step of a reconcile run, one that
\* succeeds or one that fails, leaves the Proxy, Service and Endpoints caches, the
\* dirty flag and the handlers unchanged, and the Route Store is changed by such
\* steps only; a step of an event handler changes only the cache of its own kind
\* and its Dirty() call, and leaves the other two caches and the Route Store
\* unchanged.
C19_Frame ==
    [][ /\ run' # run => UNCHANGED <<proxies, services, endpoints, hpc>>
        /\ run' # run /\ rec' = rec => UNCHANGED dirty
        /\ routes' # routes => rec = "Running" /\ rec' = "Running" /\ run' # run
        /\ proxies' # proxies \/ hpc'.pod # hpc.pod
           => UNCHANGED <<services, endpoints, routes, hpc.service, hpc.endpoints>>
        /\ services' # services \/ hpc'.service # hpc.service
           => UNCHANGED <<proxies, endpoints, routes, hpc.pod, hpc.endpoints>>
        /\ endpoints' # endpoints \/ hpc'.endpoints # hpc.endpoints
           => UNCHANGED <<proxies, services, routes, hpc.pod, hpc.service>> ]_vars

\* a run that changed the route set has failed while the three caches, each filled
\* by its own handler, are as they were when it started
C19_Witness ==
    /\ run.pc = "ret" /\ run.err /\ runClean
    /\ routes # run.snapshot
    /\ proxies # {} /\ services # {} /\ endpoints # {}

\* a reconcile run is in flight that started after the last cache change
FreshRun == rec = "Running" /\ runClean

\* a dirty signal is pending, or a handler is about to raise one
SignalOnItsWay == dirty \/ \E kind \in Kinds : hpc[kind]

\* C20: Mutation precedes signal. A handler makes its Dirty() call after its cache
\* insert or remove, so a cache membership change that no successful run has seen
\* always has a dirty signal pending or on its way, or a run in flight that started
\* after it: the reconciler is never left Idle and unsignalled with the change
\* unreconciled, and unless the stop signal is raised a run starts after the change.
C20_MutationPrecedesSignal ==
    /\ [](sync = "stale" => SignalOnItsWay \/ FreshRun)
    /\ [][ /\ proxies' # proxies => hpc'.pod /\ dirty' = dirty
           /\ services' # services => hpc'.service /\ dirty' = dirty
           /\ endpoints' # endpoints => hpc'.endpoints /\ dirty' = dirty ]_vars
    /\ (sync = "stale") ~> (stopped \/ run.pc = "list" \/ sync = "done")

\* the Service cache changed while a run was in its converge pass, after the run
\* read the caches; the handler's Dirty() call is still to come
C20_Witness ==
    /\ sync = "stale"
    /\ rec = "Running" /\ run.pc = "add" /\ ~runClean
    /\ hpc = [pod |-> FALSE, service |-> TRUE, endpoints |-> FALSE]
    /\ ~dirty

---------------------------------------------------------------------------
(* Convergence under interleaving and failure *)

\* a step in which no cache changes membership and no Route Store call fails
QuietStep == UNCHANGED <<proxies, services, endpoints>> /\ (run'.err => run.err)

\* the route set is the one the caches ask for
Converged == RouteSet(routes) = Desired

\* C11: Eventual convergence under interleaving and failure. Whatever the
\* interleaving of cache mutations with the steps of reconcile runs and whatever
\* Route Store calls fail, if from some point on no cache changes and no Route
\* Store call fails then, under fair scheduling of the reconciler and unless the
\* stop signal is raised, from some point on the route set equals
\* {(s,p) : p cached, s cached, endpoints(s) cached} for good (once a cache has
\* changed or a run has succeeded).
C11_EventualConvergence ==
    <>[][QuietStep]_vars => <>[](stopped \/ sync = "init" \/ Converged)

\* a cache changed after the run in flight had read it, and then a Route Store call
\* of that run failed: the route set is not the one the caches ask for and the
\* reconciler has yet to run again
C11_Witness ==
    /\ run.pc = "ret" /\ run.err /\ ~runClean
    /\ ~Converged /\ ~stopped
    /\ routes # run.snapshot

---------------------------------------------------------------------------
(* Run and the WaitGroup of its launcher *)

\* C21: Shutdown wait. With Run launched as a goroutine of its own and the launcher
\* then waiting on the shared WaitGroup, the wait is not released before Run has
\* returned, whatever the order of the launcher's Wait and Run's own wg.Add(1).
C21_ShutdownWait == launcher = "released" => runPc = "returned"

====
